---- MODULE Spec2Model ----
(***************************************************************************)
(* Model of djl_python/inputs.py: the stream primitives (retrieve_buffer,  *)
(* retrieve_short, retrieve_int, retrieve_utf8), the frame decoder         *)
(* (Input.read) and the content accessors (Input.get_property, get_data,   *)
(* get_as_bytes, ...).                                                     *)
(*                                                                         *)
(* Bytes are integers 0..255, a byte buffer is a sequence of bytes, a text *)
(* is a sequence of code points.  An optional value (Python's None or a    *)
(* value) is a sequence of length 0 or 1: None is << >>, Some(x) is <<x>>. *)
(***************************************************************************)
EXTENDS Integers, Sequences, FiniteSets, TLC

None == << >>
Some(x) == <<x>>

Min(a, b) == IF a < b THEN a ELSE b

(***************************************************************************)
(* Text literals.  AsciiFrom45 lists the ASCII characters of code points   *)
(* 45 to 90 and AsciiFrom97 those of 97 to 122, so Ord(c) is the code      *)
(* point of the character c and Str turns a tuple of characters into a     *)
(* text.                                                                   *)
(***************************************************************************)
AsciiFrom45 ==
    << "-", ".", "/", "0", "1", "2", "3", "4", "5", "6", "7", "8", "9", ":", ";", "<",
       "=", ">", "?", "@", "A", "B", "C", "D", "E", "F", "G", "H", "I", "J", "K", "L",
       "M", "N", "O", "P", "Q", "R", "S", "T", "U", "V", "W", "X", "Y", "Z" >>

AsciiFrom97 ==
    << "a", "b", "c", "d", "e", "f", "g", "h", "i", "j", "k", "l", "m", "n", "o", "p",
       "q", "r", "s", "t", "u", "v", "w", "x", "y", "z" >>

Ord(c) ==
    IF \E i \in 1..Len(AsciiFrom45) : AsciiFrom45[i] = c
    THEN 44 + (CHOOSE i \in 1..Len(AsciiFrom45) : AsciiFrom45[i] = c)
    ELSE 96 + (CHOOSE i \in 1..Len(AsciiFrom97) : AsciiFrom97[i] = c)

Str(cs) == [i \in 1..Len(cs) |-> Ord(cs[i])]

(***************************************************************************)
(* str.lower() on the code points the model uses: ASCII and Latin-1.       *)
(***************************************************************************)
LowerCp(c) ==
    IF (c >= 65 /\ c <= 90) \/ (c >= 192 /\ c <= 222 /\ c # 215) THEN c + 32 ELSE c

lower(s) == [i \in 1..Len(s) |-> LowerCp(s[i])]

startswith(s, prefix) ==
    /\ Len(s) >= Len(prefix)
    /\ SubSeq(s, 1, Len(prefix)) = prefix

(***************************************************************************)
(* struct.unpack(">h", data)[0] and struct.unpack(">i", data)[0]: signed   *)
(* big-endian 16 and 32 bit integers.                                      *)
(***************************************************************************)
unpack_short(data) ==
    LET u == data[1] * 256 + data[2]
    IN  IF u >= 32768 THEN u - 65536 ELSE u

unpack_int(data) ==
    LET hi == IF data[1] >= 128 THEN data[1] - 256 ELSE data[1]
    IN  hi * 16777216 + data[2] * 65536 + data[3] * 256 + data[4]

(***************************************************************************)
(* bytes.decode("utf8"): None when the bytes are not valid UTF-8 (Python   *)
(* raises UnicodeDecodeError), Some(text) otherwise.  Follows the table of *)
(* well-formed UTF-8 byte sequences (1 to 4 bytes, no overlong forms, no   *)
(* surrogates, nothing above U+10FFFF).                                    *)
(***************************************************************************)
IsCont(b) == b >= 128 /\ b <= 191

Utf8Width(b) ==
    IF b <= 127 THEN 1
    ELSE IF b >= 194 /\ b <= 223 THEN 2
    ELSE IF b >= 224 /\ b <= 239 THEN 3
    ELSE IF b >= 240 /\ b <= 244 THEN 4
    ELSE 0

Utf8SecondOk(b1, b2) ==
    /\ IsCont(b2)
    /\ (b1 = 224 => b2 >= 160)
    /\ (b1 = 237 => b2 <= 159)
    /\ (b1 = 240 => b2 >= 144)
    /\ (b1 = 244 => b2 <= 143)

Utf8Cp(b, i, w) ==
    IF w = 1 THEN b[i]
    ELSE IF w = 2 THEN (b[i] - 192) * 64 + (b[i + 1] - 128)
    ELSE IF w = 3 THEN (b[i] - 224) * 4096 + (b[i + 1] - 128) * 64 + (b[i + 2] - 128)
    ELSE (b[i] - 240) * 262144 + (b[i + 1] - 128) * 4096
         + (b[i + 2] - 128) * 64 + (b[i + 3] - 128)

\* The indices of b where a character starts: its bytes that are not
\* continuation bytes.
Utf8Starts(b) == { i \in 1..Len(b) : ~IsCont(b[i]) }

\* The character that starts at i is well formed, and the start of a
\* character or the end of b follows it.
Utf8CharOk(b, i) ==
    /\ Utf8Width(b[i]) > 0
    /\ i + Utf8Width(b[i]) - 1 <= Len(b)
    /\ Utf8Width(b[i]) >= 2 => Utf8SecondOk(b[i], b[i + 1])
    /\ Utf8Width(b[i]) >= 3 => IsCont(b[i + 2])
    /\ Utf8Width(b[i]) >= 4 => IsCont(b[i + 3])
    /\ i + Utf8Width(b[i]) <= Len(b) => ~IsCont(b[i + Utf8Width(b[i])])

Utf8Valid(b) ==
    /\ b # << >> => ~IsCont(b[1])
    /\ \A i \in Utf8Starts(b) : Utf8CharOk(b, i)

\* The index of b where its n-th character starts.
Utf8Nth(b, n) ==
    CHOOSE i \in Utf8Starts(b) : Cardinality({ j \in Utf8Starts(b) : j <= i }) = n

\* data.decode("utf8"): None for bytes that are no UTF-8 text (the call
\* raises UnicodeDecodeError), else the text.
decode_utf8(b) ==
    IF ~Utf8Valid(b) THEN None
    ELSE Some([n \in 1..Cardinality(Utf8Starts(b)) |->
                   Utf8Cp(b, Utf8Nth(b, n), Utf8Width(b[Utf8Nth(b, n)]))])

(***************************************************************************)
(* The text literals of the source, and the short ones the frames use.     *)
(***************************************************************************)
handler == Str(<<"h", "a", "n", "d", "l", "e", "r">>)
content_type == Str(<<"c", "o", "n", "t", "e", "n", "t", "-", "t", "y", "p", "e">>)
tensor_ndlist ==
    Str(<<"t", "e", "n", "s", "o", "r", "/", "n", "d", "l", "i", "s", "t">>)
application_json ==
    Str(<<"a", "p", "p", "l", "i", "c", "a", "t", "i", "o", "n", "/", "j", "s", "o", "n">>)
text_prefix == Str(<<"t", "e", "x", "t", "/">>)
image_prefix == Str(<<"i", "m", "a", "g", "e", "/">>)
data_key == Str(<<"d", "a", "t", "a">>)

Handler_Cap == Str(<<"H", "a", "n", "d", "l", "e", "r">>)
Content_Type_Cap ==
    Str(<<"C", "o", "n", "t", "e", "n", "t", "-", "T", "y", "p", "e">>)
TENSOR_NDLIST_Up ==
    Str(<<"T", "E", "N", "S", "O", "R", "/", "N", "D", "L", "I", "S", "T">>)
Application_JSON_Cap ==
    Str(<<"A", "p", "p", "l", "i", "c", "a", "t", "i", "o", "n", "/", "J", "S", "O", "N">>)
text_p == Str(<<"t", "e", "x", "t", "/", "p">>)
Text_p_Cap == Str(<<"T", "e", "x", "t", "/", "p">>)
image_p == Str(<<"i", "m", "a", "g", "e", "/", "p">>)
IMAGE_p_Up == Str(<<"I", "M", "A", "G", "E", "/", "p">>)
other_type == Str(<<"b", "i", "n">>)
other_key == Str(<<"o", "t", "h", "e", "r">>)

(***************************************************************************)
(* The wire format, as the peer writes it (big-endian, no padding):        *)
(*   Frame   := PropCount:int16 (Key:UTF8Str Val:UTF8Str){PropCount}       *)
(*              ContentCount:int16 (Key:UTF8Str Len:int32 Bytes){Count}    *)
(*   UTF8Str := Len:int16 Bytes, Len < 0 for "no value"                    *)
(***************************************************************************)
Int16BE(n) == << (n \div 256) % 256, n % 256 >>

Int32BE(n) ==
    << (n \div 16777216) % 256, (n \div 65536) % 256, (n \div 256) % 256, n % 256 >>

Utf8EncodeCp(c) ==
    IF c < 128 THEN <<c>>
    ELSE IF c < 2048 THEN << 192 + (c \div 64), 128 + (c % 64) >>
    ELSE IF c < 65536
         THEN << 224 + (c \div 4096), 128 + ((c \div 64) % 64), 128 + (c % 64) >>
    ELSE << 240 + (c \div 262144), 128 + ((c \div 4096) % 64),
            128 + ((c \div 64) % 64), 128 + (c % 64) >>

RECURSIVE Utf8Encode(_)
Utf8Encode(s) ==
    IF s = << >> THEN << >> ELSE Utf8EncodeCp(Head(s)) \o Utf8Encode(Tail(s))

EncodeUtf8Str(opt) ==
    IF opt = None THEN Int16BE(-1)
    ELSE LET b == Utf8Encode(opt[1]) IN Int16BE(Len(b)) \o b

RECURSIVE EncodeProps(_)
EncodeProps(ps) ==
    IF ps = << >> THEN << >>
    ELSE EncodeUtf8Str(Head(ps)[1]) \o EncodeUtf8Str(Head(ps)[2])
         \o EncodeProps(Tail(ps))

RECURSIVE EncodeContent(_)
EncodeContent(cs) ==
    IF cs = << >> THEN << >>
    ELSE EncodeUtf8Str(Head(cs)[1]) \o Int32BE(Len(Head(cs)[2])) \o Head(cs)[2]
         \o EncodeContent(Tail(cs))

EncodeFrame(f) ==
    Int16BE(Len(f.props)) \o EncodeProps(f.props)
    \o Int16BE(Len(f.content)) \o EncodeContent(f.content)

(***************************************************************************)
(* The frames the peer may send.  A frame is a record of its property      *)
(* pairs <<key, value>> (optional texts) and its content pairs             *)
(* <<key, bytes>> (optional text, byte buffer).                            *)
(***************************************************************************)
MaxProps == 2
MaxContent == 2

T(c) == Some(Str(<<c>>))

RECURSIVE SeqsUpTo(_, _)
SeqsUpTo(S, n) ==
    IF n = 0 THEN { << >> }
    ELSE LET shorter == SeqsUpTo(S, n - 1)
         IN  shorter \cup { Append(q, x) : q \in shorter, x \in S }

HandlerPairs ==
    { <<Some(handler), T("h")>>, <<Some(Handler_Cap), T("g")>>,
      <<T("a"), T("1")>>, <<T("a"), T("2")>>,
      <<None, T("1")>>, <<T("a"), None>> }

ContentTypePairs ==
    { <<Some(content_type), Some(v)>> :
        v \in { tensor_ndlist, application_json, text_p, image_p, other_type,
                TENSOR_NDLIST_Up, Application_JSON_Cap, Text_p_Cap, IMAGE_p_Up } }
    \cup { <<Some(Content_Type_Cap), Some(application_json)>>,
           <<Some(content_type), None>> }

ContentPairs ==
    { <<Some(data_key), Str(<<"Y">>)>>, <<Some(other_key), Str(<<"X">>)>>,
      <<Some(data_key), << >> >>, <<None, <<255>> >> }

\* Empty texts, and a key sent twice among the properties and the content.
ExtraFrames ==
    { [props |-> << <<Some(<< >>), Some(<< >>)>> >>,
       content |-> << <<Some(<< >>), << >> >> >>],
      [props |-> << <<T("a"), T("1")>>, <<T("b"), T("3")>>, <<T("a"), T("2")>> >>,
       content |-> << <<Some(data_key), Str(<<"Y">>)>>, <<Some(other_key), <<7>> >>,
                      <<Some(data_key), << >> >> >>] }

Frames ==
    ExtraFrames \cup
    { [props |-> ps, content |-> << <<Some(data_key), Str(<<"Y">>)>> >>] :
        ps \in SeqsUpTo(HandlerPairs, MaxProps) }
    \cup { [props |-> ps, content |-> cs] :
             ps \in { << >> } \cup { <<p>> : p \in ContentTypePairs },
             cs \in SeqsUpTo(ContentPairs, MaxContent) }

(***************************************************************************)
(* The streams the peer may send: a frame, or two frames back to back.     *)
(***************************************************************************)
FirstFrames ==
    ExtraFrames \cup { f \in Frames : Len(f.props) <= 1 /\ Len(f.content) <= 1 }

SecondFrames ==
    { [props |-> << <<Some(handler), T("h")>> >>,
       content |-> << <<Some(data_key), Str(<<"Y">>)>> >>],
      [props |-> << >>, content |-> << >>] }

Streams ==
    { <<f>> : f \in Frames } \cup { <<f, g>> : f \in FirstFrames, g \in SecondFrames }

RECURSIVE EncodeStream(_)
EncodeStream(fs) ==
    IF fs = << >> THEN << >> ELSE EncodeFrame(Head(fs)) \o EncodeStream(Tail(fs))

(***************************************************************************)
(* Byte streams that are no well-formed frame: negative counts and         *)
(* lengths, a negative string length other than -1, invalid UTF-8 in a     *)
(* property key, in a property value after a complete pair and in a        *)
(* content key after a complete content pair, and a two-byte character.    *)
(***************************************************************************)
RawWires ==
    { Int16BE(-1) \o Int16BE(0),
      Int16BE(0) \o Int16BE(-2),
      Int16BE(0) \o Int16BE(2) \o EncodeUtf8Str(Some(data_key)) \o Int32BE(-1)
        \o EncodeUtf8Str(T("a")) \o Int32BE(0),
      Int16BE(1) \o Int16BE(-2) \o EncodeUtf8Str(T("1")) \o Int16BE(0),
      Int16BE(1) \o Int16BE(1) \o <<255>> \o EncodeUtf8Str(T("1")) \o Int16BE(0),
      Int16BE(2) \o EncodeUtf8Str(Some(handler)) \o EncodeUtf8Str(T("h"))
        \o EncodeUtf8Str(T("a")) \o Int16BE(2) \o <<192, 128>> \o Int16BE(0),
      Int16BE(0) \o Int16BE(2) \o EncodeUtf8Str(T("a")) \o Int32BE(1) \o <<7>>
        \o Int16BE(1) \o <<128>> \o Int32BE(0),
      Int16BE(1) \o Int16BE(2) \o <<195, 137>> \o EncodeUtf8Str(T("1")) \o Int16BE(0) }

(***************************************************************************)
(* State.                                                                  *)
(*   wire, pos, closed : the connection: the bytes the peer sends, how     *)
(*       many of them recv has delivered, whether recv has returned b""    *)
(*   frame             : the frame the peer encoded (None for a raw wire)  *)
(*       that the Input at hand is to decode; rest is the frames the peer  *)
(*       sent behind it, fstart is pos when the Input was constructed      *)
(*   pc                : where Input.read stands: "new" before the call,   *)
(*       the field whose retrieve_buffer loop is running, "done" after it  *)
(*       returned, "failed" after it raised; error is the failure          *)
(*   length, data      : retrieve_buffer's variables; want and start are   *)
(*       the length it was called with and pos at the call                 *)
(*   prop_size, content_size, idx, key : locals of Input.read              *)
(*   ustart, last_utf8 : pos at the running retrieve_utf8 call, and the    *)
(*       record of the last retrieve_utf8 call that returned               *)
(*   reads             : the primitives Input.read has called so far, in   *)
(*       order: "short", "utf8", "int", "buffer"                           *)
(*   function_name, properties, content : the fields of Input; properties  *)
(*       is the dict as its sequence of items in insertion order           *)
(*   call              : the last accessor call on the Input and what it   *)
(*       returned or raised                                                *)
(***************************************************************************)
VARIABLES wire, frame, rest, fstart, pos, closed, pc, error, length, data, want, start,
          prop_size, content_size, idx, key, ustart, last_utf8, reads,
          function_name, properties, content, call

conn == <<wire, frame, rest, fstart, pos, closed>>
buffer == <<length, data, want, start>>
locals == <<prop_size, content_size, idx, key>>
utf8 == <<ustart, last_utf8>>
log == <<utf8, reads>>
request == <<function_name, properties, content>>
vars == <<conn, pc, error, buffer, locals, log, request, call>>

Reading ==
    { "propSize", "propKeyLen", "propKey", "propValLen", "propVal",
      "contentSize", "contKeyLen", "contKey", "contLen", "contVal" }

NoCall == [op |-> "", key |-> None, exc |-> "", kind |-> "", val |-> None]

NoUtf8 == [returned |-> FALSE, from |-> 0, to |-> 0, ret |-> None]

Init ==
    /\ \/ \E fs \in Streams :
              /\ frame = Some(Head(fs))
              /\ rest = Tail(fs)
              /\ wire = EncodeStream(fs)
       \/ \E w \in RawWires : frame = None /\ rest = << >> /\ wire = w
    /\ fstart = 0
    /\ pos = 0
    /\ closed = FALSE
    /\ pc = "new"
    /\ error = ""
    /\ length = 0
    /\ data = << >>
    /\ want = 0
    /\ start = 0
    /\ prop_size = 0
    /\ content_size = 0
    /\ idx = 0
    /\ key = None
    /\ ustart = 0
    /\ last_utf8 = NoUtf8
    /\ reads = << >>
    /\ function_name = None
    /\ properties = << >>
    /\ content = << >>
    /\ call = NoCall

(***************************************************************************)
(* retrieve_buffer(conn, length).                                          *)
(***************************************************************************)
\* The call: data = bytearray().
CallBuffer(field, n) ==
    /\ pc' = field
    /\ data' = << >>
    /\ length' = n
    /\ want' = n
    /\ start' = pos

\* The bytes conn.recv(length) hands over when the peer delivers m bytes.
recv(m) == SubSeq(wire, pos + 1, pos + m)

\* RecvData with "data = pkt" for "data += pkt".
RecvData_Overwrite(m) ==
    /\ pc \in Reading
    /\ length > 0
    /\ ~closed
    /\ m >= 1
    /\ m <= Min(length, Len(wire) - pos)
    /\ data' = recv(m)
    /\ length' = length - m
    /\ pos' = pos + m
    /\ UNCHANGED <<wire, frame, rest, fstart, closed, pc, error, want, start, locals, log,
                   request, call>>

\* RecvData with conn.recv(length + 1): a read that asks for a byte more
\* than is missing.
RecvData_AskMore(m) ==
    /\ pc \in Reading
    /\ length > 0
    /\ ~closed
    /\ m >= 1
    /\ m <= Min(length + 1, Len(wire) - pos)
    /\ data' = data \o recv(m)
    /\ length' = length - m
    /\ pos' = pos + m
    /\ UNCHANGED <<wire, frame, rest, fstart, closed, pc, error, want, start, locals,
                   log, request, call>>

\* One pass of the loop with a packet of m > 0 bytes, which recv gives only
\* as long as it has not returned b"" for the closed connection:
\* data += pkt; length -= len(pkt).
RecvData(m) ==
    /\ pc \in Reading
    /\ length > 0
    /\ ~closed
    /\ m >= 1
    /\ m <= Min(length, Len(wire) - pos)
    /\ data' = data \o recv(m)
    /\ length' = length - m
    /\ pos' = pos + m
    /\ UNCHANGED <<wire, frame, rest, fstart, closed, pc, error, want, start, locals, log,
                   request, call>>

\* RecvClosed that passes over the empty packet and receives again.
RecvClosed_Retry ==
    /\ pc \in Reading
    /\ length > 0
    /\ closed' = TRUE
    /\ UNCHANGED <<wire, frame, rest, fstart, pos, pc, error, buffer, locals, log,
                   request, call>>

\* One pass of the loop where recv returns b"": the peer has closed.
\* raise ValueError("Connection disconnected").
RecvClosed ==
    /\ pc \in Reading
    /\ length > 0
    /\ closed' = TRUE
    /\ pc' = "failed"
    /\ error' = "Disconnected"
    /\ UNCHANGED <<wire, frame, rest, fstart, pos, buffer, locals, log, request,
                   call>>

\* The loop is over and retrieve_buffer returns data to the field's reader.
Returns(field) == pc = field /\ length <= 0

(***************************************************************************)
(* The dict Input.properties (its items in insertion order) and the        *)
(* PairList Input.content.                                                 *)
(***************************************************************************)
HasKey(d, k) == \E i \in 1..Len(d) : d[i][1] = k

IndexOf(d, k) == CHOOSE i \in 1..Len(d) : d[i][1] = k /\ \A j \in 1..(i - 1) : d[j][1] # k

\* dict_set that keeps the value a key already has (d.setdefault(k, v)).
dict_set_KeepFirst(d, k, v) ==
    IF HasKey(d, k) THEN d ELSE Append(d, <<k, v>>)

\* d[k] = v: a key already present keeps its place and takes the new value.
dict_set(d, k, v) ==
    IF HasKey(d, k) THEN [d EXCEPT ![IndexOf(d, k)] = <<k, v>>]
    ELSE Append(d, <<k, v>>)

\* d.get(k) for a text k: the value stored under exactly k, else None.
dict_get(d, k) ==
    IF HasKey(d, Some(k)) THEN d[IndexOf(d, Some(k))][2] ELSE None

PairList_add(pl, k, v) == Append(pl, <<k, v>>)

PairList_is_empty(pl) == Len(pl) = 0

\* The value of the first pair whose key is k, as Some(bytes); None without.
PairList_get(pl, k) ==
    IF HasKey(pl, Some(k)) THEN Some(pl[IndexOf(pl, Some(k))][2]) ELSE None

PairList_value_at(pl, i) == pl[i + 1][2]

(***************************************************************************)
(* The primitives Input.read calls.  retrieve_short and retrieve_int call  *)
(* retrieve_buffer for 2 and 4 bytes; retrieve_utf8 calls retrieve_short,  *)
(* returns None for a negative length, and otherwise calls retrieve_buffer *)
(* and decodes what it returns.                                            *)
(***************************************************************************)
CallShort(field) ==
    /\ reads' = Append(reads, "short")
    /\ CallBuffer(field, 2)

CallInt(field) ==
    /\ reads' = Append(reads, "int")
    /\ CallBuffer(field, 4)

\* CallValue asking for the absolute value of the length read.
CallValue_Abs(field, n) ==
    /\ reads' = Append(reads, "buffer")
    /\ CallBuffer(field, IF n < 0 THEN 0 - n ELSE n)

CallValue(field, n) ==
    /\ reads' = Append(reads, "buffer")
    /\ CallBuffer(field, n)

CallUtf8(field) ==
    /\ reads' = Append(reads, "utf8")
    /\ ustart' = pos
    /\ CallBuffer(field, 2)

ReturnUtf8(ret) ==
    last_utf8' = [returned |-> TRUE, from |-> ustart, to |-> pos, ret |-> ret]

\* utf8_is_none with "length <= 0" for "length < 0".
utf8_is_none_OrEmpty(n) == n <= 0

\* if length < 0: return None
utf8_is_none(n) == n < 0

\* An exception leaves Input.read; the fields of the Input stay as they are.
Raise(e) ==
    /\ pc' = "failed"
    /\ error' = e
    /\ UNCHANGED buffer

(***************************************************************************)
(* Input.read(conn), one action per retrieve_buffer call that returns.     *)
(***************************************************************************)
\* The lookup of the last statement of Input.read.
lookup_function_name(props) == dict_get(props, handler)

\* self.function_name = self.properties.get('handler'), and read returns.
Finish ==
    /\ pc' = "done"
    /\ function_name' = lookup_function_name(properties)
    /\ UNCHANGED <<buffer, ustart, reads>>

\* The step of "for _ in range(prop_size)" after a pair, and
\* content_size = retrieve_short(conn) after the last.
NextProp ==
    IF idx + 1 < prop_size
    THEN idx' = idx + 1 /\ CallUtf8("propKeyLen")
    ELSE idx' = idx /\ ustart' = ustart /\ CallShort("contentSize")

\* The step of "for _ in range(content_size)" after a pair.
NextContent ==
    IF idx + 1 < content_size
    THEN idx' = idx + 1 /\ CallUtf8("contKeyLen") /\ UNCHANGED function_name
    ELSE idx' = idx /\ Finish

\* Input() is constructed for the next request of the connection, after
\* the read of the one before has returned: function_name = None,
\* properties = dict(), content = PairList().
NewInput ==
    /\ pc = "done"
    /\ rest # << >>
    /\ frame' = Some(Head(rest))
    /\ rest' = Tail(rest)
    /\ fstart' = pos
    /\ pc' = "new"
    /\ function_name' = None
    /\ properties' = << >>
    /\ content' = << >>
    /\ prop_size' = 0
    /\ content_size' = 0
    /\ idx' = 0
    /\ key' = None
    /\ reads' = << >>
    /\ call' = NoCall
    /\ UNCHANGED <<wire, pos, closed, error, buffer, utf8>>

\* read is called: prop_size = retrieve_short(conn) starts.
Read ==
    /\ pc = "new"
    /\ CallShort("propSize")
    /\ call' = NoCall
    /\ UNCHANGED <<conn, error, locals, utf8, request>>

PropSizeDone ==
    /\ Returns("propSize")
    /\ prop_size' = unpack_short(data)
    /\ IF prop_size' > 0
       THEN idx' = 0 /\ CallUtf8("propKeyLen")
       ELSE idx' = idx /\ ustart' = ustart /\ CallShort("contentSize")
    /\ UNCHANGED <<conn, error, content_size, key, last_utf8, request, call>>

PropKeyLenDone ==
    /\ Returns("propKeyLen")
    /\ IF utf8_is_none(unpack_short(data))
       THEN key' = None /\ ReturnUtf8(None) /\ CallUtf8("propValLen")
       ELSE CallBuffer("propKey", unpack_short(data)) /\ UNCHANGED <<key, log>>
    /\ UNCHANGED <<conn, error, prop_size, content_size, idx, request, call>>

PropKeyDone ==
    /\ Returns("propKey")
    /\ IF decode_utf8(data) = None
       THEN Raise("Decode") /\ UNCHANGED <<key, log>>
       ELSE key' = decode_utf8(data) /\ ReturnUtf8(decode_utf8(data))
            /\ CallUtf8("propValLen") /\ UNCHANGED error
    /\ UNCHANGED <<conn, prop_size, content_size, idx, request, call>>

\* PutProperty without the assignment.
PutProperty_Skip(val) ==
    /\ ReturnUtf8(val)
    /\ properties' = properties
    /\ NextProp

\* self.properties[key] = val, then the loop goes on.
PutProperty(val) ==
    /\ ReturnUtf8(val)
    /\ properties' = dict_set(properties, key, val)
    /\ NextProp

PropValLenDone ==
    /\ Returns("propValLen")
    /\ IF utf8_is_none(unpack_short(data))
       THEN PutProperty(None)
       ELSE CallBuffer("propVal", unpack_short(data))
            /\ UNCHANGED <<idx, log, properties>>
    /\ UNCHANGED <<conn, error, prop_size, content_size, key, function_name,
                   content, call>>

PropValDone ==
    /\ Returns("propVal")
    /\ IF decode_utf8(data) = None
       THEN Raise("Decode") /\ UNCHANGED <<idx, log, properties>>
       ELSE PutProperty(decode_utf8(data)) /\ UNCHANGED error
    /\ UNCHANGED <<conn, prop_size, content_size, key, function_name, content, call>>

\* ContentSizeDone that sets function_name as soon as the properties are
\* read, before the content pairs.
ContentSizeDone_NameFirst ==
    /\ Returns("contentSize")
    /\ content_size' = unpack_short(data)
    /\ IF content_size' > 0
       THEN /\ idx' = 0
            /\ CallUtf8("contKeyLen")
            /\ function_name' = lookup_function_name(properties)
       ELSE idx' = idx /\ Finish
    /\ UNCHANGED <<conn, error, prop_size, key, last_utf8, properties, content, call>>

ContentSizeDone ==
    /\ Returns("contentSize")
    /\ content_size' = unpack_short(data)
    /\ IF content_size' > 0
       THEN idx' = 0 /\ CallUtf8("contKeyLen") /\ UNCHANGED function_name
       ELSE idx' = idx /\ Finish
    /\ UNCHANGED <<conn, error, prop_size, key, last_utf8, properties, content, call>>

ContKeyLenDone ==
    /\ Returns("contKeyLen")
    /\ IF utf8_is_none(unpack_short(data))
       THEN key' = None /\ ReturnUtf8(None) /\ CallInt("contLen")
       ELSE CallBuffer("contKey", unpack_short(data))
            /\ UNCHANGED <<key, last_utf8, reads>>
    /\ UNCHANGED <<conn, error, prop_size, content_size, idx, ustart, request, call>>

ContKeyDone ==
    /\ Returns("contKey")
    /\ IF decode_utf8(data) = None
       THEN Raise("Decode") /\ UNCHANGED <<key, last_utf8, reads>>
       ELSE key' = decode_utf8(data) /\ ReturnUtf8(decode_utf8(data))
            /\ CallInt("contLen") /\ UNCHANGED error
    /\ UNCHANGED <<conn, prop_size, content_size, idx, ustart, request, call>>

\* length = retrieve_int(conn); val = retrieve_buffer(conn, length) starts.
ContLenDone ==
    /\ Returns("contLen")
    /\ CallValue("contVal", unpack_int(data))
    /\ UNCHANGED <<conn, error, locals, utf8, request, call>>

\* ContValDone adding the pair without its key.
ContValDone_DropKey ==
    /\ Returns("contVal")
    /\ content' = PairList_add(content, None, data)
    /\ NextContent
    /\ UNCHANGED <<conn, error, prop_size, content_size, key, last_utf8,
                   properties, call>>

\* self.content.add(key=key, value=val), then the loop goes on.
ContValDone ==
    /\ Returns("contVal")
    /\ content' = PairList_add(content, key, data)
    /\ NextContent
    /\ UNCHANGED <<conn, error, prop_size, content_size, key, last_utf8,
                   properties, call>>

(***************************************************************************)
(* The accessors of Input.  Each is an operator on the fields of the Input *)
(* that gives what the call returns or raises, as a record:                *)
(*   exc  : "" when the call returns, else the exception it raises         *)
(*   kind : the type of the value returned: "None", "bytes", "str",        *)
(*          "literal" (ast.literal_eval of a text), "image" (Image.open of *)
(*          a buffer), "ndlist" (from_nd_list of a buffer)                 *)
(*   val  : Some(bytes or text the value is made of), None for None        *)
(***************************************************************************)
Returned(kind, val) == [exc |-> "", kind |-> kind, val |-> val]

Raised(e) == [exc |-> e, kind |-> "", val |-> None]

ReturnedBytes(opt) == Returned(IF opt = None THEN "None" ELSE "bytes", opt)

\* The first item of properties, in order, that settles the generator of
\* get_property: its key is None (k.lower() raises) or matches ignoring case.
Settles(item, k) == item[1] = None \/ lower(item[1][1]) = lower(k)

get_property(k) ==
    IF \E i \in 1..Len(properties) : Settles(properties[i], k)
    THEN LET i == CHOOSE i \in 1..Len(properties) :
                    /\ Settles(properties[i], k)
                    /\ \A j \in 1..(i - 1) : ~Settles(properties[j], k)
         IN  IF properties[i][1] = None THEN Raised("AttributeError")
             ELSE Returned(IF properties[i][2] = None THEN "None" ELSE "str",
                           properties[i][2])
    ELSE Returned("None", None)

\* get_as_bytes with "if not ret" for "if ret is None".
get_as_bytes_Falsy(k) ==
    IF PairList_is_empty(content) THEN Raised("EmptyInput")
    ELSE IF k # None THEN ReturnedBytes(PairList_get(content, k[1]))
    ELSE IF PairList_get(content, data_key) \in { None, Some(<< >>) }
         THEN ReturnedBytes(Some(PairList_value_at(content, 0)))
         ELSE ReturnedBytes(PairList_get(content, data_key))

\* get_as_bytes where a key that no pair has falls back as no key does.
get_as_bytes_KeyFallback(k) ==
    IF PairList_is_empty(content) THEN Raised("EmptyInput")
    ELSE IF k # None /\ PairList_get(content, k[1]) # None
         THEN ReturnedBytes(PairList_get(content, k[1]))
    ELSE IF PairList_get(content, data_key) = None
         THEN ReturnedBytes(Some(PairList_value_at(content, 0)))
         ELSE ReturnedBytes(PairList_get(content, data_key))

get_as_bytes(k) ==
    IF PairList_is_empty(content) THEN Raised("EmptyInput")
    ELSE IF k # None THEN ReturnedBytes(PairList_get(content, k[1]))
    ELSE IF PairList_get(content, data_key) = None
         THEN ReturnedBytes(Some(PairList_value_at(content, 0)))
         ELSE ReturnedBytes(PairList_get(content, data_key))

\* b.decode("utf-8") on what get_as_bytes gave: None has no decode.
decode_bytes(b) ==
    IF b.exc # "" THEN b
    ELSE IF b.val = None THEN Raised("AttributeError")
    ELSE IF decode_utf8(b.val[1]) = None THEN Raised("UnicodeDecodeError")
    ELSE Returned("str", decode_utf8(b.val[1]))

get_as_string(k) == decode_bytes(get_as_bytes(k))

\* ast.literal_eval is taken as a function of the text it is given.
get_as_json(k) ==
    LET t == decode_bytes(get_as_bytes(k))
    IN  IF t.exc # "" THEN t ELSE Returned("literal", t.val)

\* Image.open is taken as a function of the buffer; io.BytesIO(None) is an
\* empty buffer.  The import of PIL that precedes get_as_bytes is taken to
\* succeed (PIL is installed).
get_as_image(k) ==
    LET b == get_as_bytes(k)
    IN  IF b.exc # "" THEN b
        ELSE Returned("image", IF b.val = None THEN Some(<< >>) ELSE b.val)

\* from_nd_list is taken as a function of its argument.
get_as_numpy(k) ==
    LET b == get_as_bytes(k)
    IN  IF b.exc # "" THEN b ELSE Returned("ndlist", b.val)

\* The accessor of each branch of get_data.
accessor(name, k) ==
    IF name = "get_as_numpy" THEN get_as_numpy(k)
    ELSE IF name = "get_as_json" THEN get_as_json(k)
    ELSE IF name = "get_as_string" THEN get_as_string(k)
    ELSE IF name = "get_as_image" THEN get_as_image(k)
    ELSE get_as_bytes(k)

\* The branch for a content type v (an optional text) compared as it is.
branch(v) ==
    IF v = Some(tensor_ndlist) THEN "get_as_numpy"
    ELSE IF v = Some(application_json) THEN "get_as_json"
    ELSE IF v # None /\ startswith(v[1], text_prefix) THEN "get_as_string"
    ELSE IF v # None /\ startswith(v[1], image_prefix) THEN "get_as_image"
    ELSE "get_as_bytes"

\* route comparing the content type in lower case.
route_IgnoreCase(v) == branch(IF v = None THEN None ELSE Some(lower(v[1])))

\* The branch get_data takes for the content type v that get_property gave.
route(v) == branch(v)

get_data(k) ==
    LET ct == get_property(content_type)
    IN  IF ct.exc # "" THEN ct ELSE accessor(route(ct.val), k)

(***************************************************************************)
(* The caller's accessor calls.  They are made on an Input that read has   *)
(* not been called on yet or that read has returned; an Input whose read   *)
(* raised is discarded.                                                    *)
(***************************************************************************)
Keys == { None, Some(data_key), Some(other_key) }

PropertyKeys == { content_type, Str(<<"H", "A", "N", "D", "L", "E", "R">>), Str(<<"A">>) }

Queryable == pc \in { "new", "done" }

\* Called with the accessor taking the first pair out of the content.
Called_Consuming(op, k, r) ==
    /\ Queryable
    /\ call' = [op |-> op, key |-> k, exc |-> r.exc, kind |-> r.kind, val |-> r.val]
    /\ content' = IF content = << >> THEN content ELSE Tail(content)
    /\ UNCHANGED <<conn, pc, error, buffer, locals, log, function_name, properties>>

\* An accessor is called with key k and ends as r says; none of the
\* accessors assigns to a field of the Input.
Called(op, k, r) ==
    /\ Queryable
    /\ call' = [op |-> op, key |-> k, exc |-> r.exc, kind |-> r.kind, val |-> r.val]
    /\ UNCHANGED <<conn, pc, error, buffer, locals, log, request>>

GetProperty(k) == Called("get_property", Some(k), get_property(k))

GetData(k) == Called("get_data", k, get_data(k))

GetAsBytes(k) == Called("get_as_bytes", k, get_as_bytes(k))

GetAsString(k) == Called("get_as_string", k, get_as_string(k))

GetAsJson(k) == Called("get_as_json", k, get_as_json(k))

GetAsImage(k) == Called("get_as_image", k, get_as_image(k))

GetAsNumpy(k) == Called("get_as_numpy", k, get_as_numpy(k))

Next ==
    \/ Read
    \/ \E m \in 1..Len(wire) : RecvData(m)
    \/ RecvClosed
    \/ PropSizeDone
    \/ PropKeyLenDone
    \/ PropKeyDone
    \/ PropValLenDone
    \/ PropValDone
    \/ ContentSizeDone
    \/ ContKeyLenDone
    \/ ContKeyDone
    \/ ContLenDone
    \/ ContValDone
    \/ \E k \in PropertyKeys : GetProperty(k)
    \/ \E k \in Keys : GetData(k)
    \/ \E k \in Keys : GetAsBytes(k)
    \/ \E k \in Keys : GetAsString(k)
    \/ \E k \in Keys : GetAsJson(k)
    \/ \E k \in Keys : GetAsImage(k)
    \/ \E k \in Keys : GetAsNumpy(k)
    \/ NewInput

Spec == Init /\ [][Next]_vars

(***************************************************************************)
(* A read that has been called runs on: a recv that is pending returns,    *)
(* with bytes or with none, and the statement after a retrieve_buffer call *)
(* that has returned is executed.  The caller is free to call read, the    *)
(* accessors and Input() or not.                                           *)
(***************************************************************************)
DecodeStep ==
    \/ \E m \in 1..Len(wire) : RecvData(m)
    \/ RecvClosed
    \/ PropSizeDone
    \/ PropKeyLenDone
    \/ PropKeyDone
    \/ PropValLenDone
    \/ PropValDone
    \/ ContentSizeDone
    \/ ContKeyLenDone
    \/ ContKeyDone
    \/ ContLenDone
    \/ ContValDone

FairSpec == Spec /\ WF_vars(DecodeStep)

(***************************************************************************)
(* What the decoder is to make of a well-formed frame, from the frame      *)
(* alone.                                                                  *)
(***************************************************************************)
\* The keys the frame's property block carries.
SentKeys(ps) == { ps[i][1] : i \in 1..Len(ps) }

\* The value of the last pair of ps whose key is k.
LastValue(ps, k) ==
    ps[CHOOSE i \in 1..Len(ps) :
           ps[i][1] = k /\ \A j \in (i + 1)..Len(ps) : ps[j][1] # k][2]

\* The items of d whose key is k.
ItemsOf(d, k) == { i \in 1..Len(d) : d[i][1] = k }

\* d holds, for each key of ps and no other, one item: the key with the
\* value of its last pair in ps.
HoldsLastOf(d, ps) ==
    /\ \A i \in 1..Len(d) : d[i][1] \in SentKeys(ps)
    /\ \A k \in SentKeys(ps) :
           /\ Cardinality(ItemsOf(d, k)) = 1
           /\ \A i \in ItemsOf(d, k) : d[i][2] = LastValue(ps, k)

RECURSIVE Repeat(_, _)
Repeat(s, n) == IF n <= 0 THEN << >> ELSE s \o Repeat(s, n - 1)

\* The primitives read is to call for a frame of p property and c content
\* pairs.
ReadsOf(p, c) ==
    <<"short">> \o Repeat(<<"utf8", "utf8">>, p)
    \o <<"short">> \o Repeat(<<"utf8", "int", "buffer">>, c)

CallResult == [exc |-> call.exc, kind |-> call.kind, val |-> call.val]

(***************************************************************************)
(* The claims.                                                             *)
(***************************************************************************)

\* C1: retrieve_buffer(conn, n) with n > 0, however the peer splits its data
\* into packets: when recv returns no bytes after k < n bytes were
\* delivered the call raises Disconnected, and when the call returns, its
\* buffer is exactly the n bytes delivered since the call, in order; it
\* never returns fewer.
C1_ReadExactOrDisconnected ==
    /\ closed => /\ pc = "failed"
                 /\ error = "Disconnected"
                 /\ Len(data) < want
                 /\ data = SubSeq(wire, start + 1, pos)
    /\ (pc \in Reading /\ length <= 0 /\ want > 0) =>
           /\ Len(data) = want
           /\ pos = start + want
           /\ data = SubSeq(wire, start + 1, start + want)

\* A read of at least four bytes that the peer closed after a part of them.
C1_Witness == closed /\ want >= 4 /\ Len(data) >= 2 /\ Len(data) < want

\* C2, as claimed: when decode fails, properties, content and functionName
\* are as they were before the call (empty and unset).
C2_Claimed_NoPartialState ==
    pc = "failed" =>
        /\ properties = << >>
        /\ content = << >>
        /\ function_name = None

\* C2, amended: when decode fails it fails with the failure of the read
\* that failed (Disconnected or Decode) and functionName stays unset, but
\* the pairs read before the failure stay in the request: properties holds
\* the first pairs of the frame's property block (a later value of a key
\* over an earlier one), content holds the first pairs of its content
\* block, and no content pair is there before all the properties are.
C2_FailureKeepsPairsRead ==
    pc = "failed" =>
        /\ error \in { "Disconnected", "Decode" }
        /\ function_name = None
        /\ frame # None =>
               /\ \E n \in 0..Len(frame[1].props) :
                      /\ HoldsLastOf(properties, SubSeq(frame[1].props, 1, n))
                      /\ content # << >> => n = Len(frame[1].props)
               /\ Len(content) <= Len(frame[1].content)
               /\ content = SubSeq(frame[1].content, 1, Len(content))

\* A decode that failed with a property and a content pair already stored.
C2_Witness ==
    /\ pc = "failed"
    /\ frame # None
    /\ properties # << >>
    /\ content # << >>
    /\ Len(content) < Len(frame[1].content)

\* C3: for a well-formed frame, in any chunking, decode calls its reads in
\* the order count, (key, value) per property, count, (key, length, bytes)
\* per content pair; on return content is the frame's sequence of content
\* pairs in wire order, null keys kept, and properties maps every key sent
\* to a value sent with it (and holds nothing else).
C3_DecodeYieldsFrame ==
    /\ (frame # None /\ pc \notin { "new" }) =>
           \E n \in 0..Len(ReadsOf(Len(frame[1].props), Len(frame[1].content))) :
               reads = SubSeq(ReadsOf(Len(frame[1].props), Len(frame[1].content)), 1, n)
    /\ (frame # None /\ pc = "done") =>
           /\ reads = ReadsOf(Len(frame[1].props), Len(frame[1].content))
           /\ content = frame[1].content
           /\ \A i \in 1..Len(properties) : properties[i][1] \in SentKeys(frame[1].props)
           /\ \A k \in SentKeys(frame[1].props) :
                  \E i \in 1..Len(properties) :
                      /\ properties[i][1] = k
                      /\ \E j \in 1..Len(frame[1].props) :
                             frame[1].props[j] = <<k, properties[i][2]>>

\* A decoded frame of a property and two content pairs, one with a null key.
C3_Witness ==
    /\ pc = "done"
    /\ frame # None
    /\ Len(properties) >= 1
    /\ Len(content) = 2
    /\ content[2][1] = None
    /\ content[1][1] # None

\* C4: retrieve_utf8 with a negative length prefix returns None and has
\* consumed exactly 2 bytes; with the prefix 0 it returns the empty text,
\* which is not None, and has consumed exactly 2 bytes; with a prefix L > 0
\* it has consumed exactly 2 + L bytes.
C4_Utf8Consumes ==
    last_utf8.returned =>
        LET prefix == unpack_short(SubSeq(wire, last_utf8.from + 1, last_utf8.from + 2))
        IN  /\ prefix < 0 => /\ last_utf8.ret = None
                             /\ last_utf8.to = last_utf8.from + 2
            /\ prefix = 0 => /\ last_utf8.ret = Some(<< >>)
                             /\ last_utf8.ret # None
                             /\ last_utf8.to = last_utf8.from + 2
            /\ prefix > 0 => /\ last_utf8.ret # None
                             /\ last_utf8.to = last_utf8.from + 2 + prefix

\* A retrieve_utf8 call that met the prefix -1.
C4_Witness ==
    /\ last_utf8.returned
    /\ SubSeq(wire, last_utf8.from + 1, last_utf8.from + 2) = <<255, 255>>
    /\ last_utf8.ret = None
    /\ last_utf8.to = last_utf8.from + 2

\* The property items whose key is k ignoring case.
ItemsIgnoringCase(k) ==
    { i \in 1..Len(properties) :
        properties[i][1] # None /\ lower(properties[i][1][1]) = lower(k) }

\* The value of the content-type property of the request: that of the first
\* item whose key is "content-type" ignoring case; None without such an item.
ContentTypeValue ==
    IF ItemsIgnoringCase(content_type) = {} THEN None
    ELSE properties[CHOOSE i \in ItemsIgnoringCase(content_type) :
                        \A j \in ItemsIgnoringCase(content_type) : i <= j][2]

ByteAccessors ==
    { "get_as_bytes", "get_as_string", "get_as_json", "get_as_image", "get_as_numpy" }

\* C5, as claimed: after a successful decode functionName is the value of
\* the property whose key is "handler" ignoring case, and null when there
\* is no such property.
C5_Claimed_HandlerIgnoringCase ==
    pc = "done" =>
        IF ItemsIgnoringCase(handler) = {} THEN function_name = None
        ELSE \E i \in ItemsIgnoringCase(handler) : function_name = properties[i][2]

\* C6, as claimed: get_data treats a content-type value as it treats the
\* value in lower case.
C6_Claimed_ValueIgnoringCase ==
    (call.op = "get_data" /\ get_property(content_type).exc = ""
        /\ get_property(content_type).val # None) =>
        CallResult =
            accessor(branch(Some(lower(get_property(content_type).val[1]))), call.key)

\* C6, amended: get_data finds the content-type property whatever the letter
\* case of its key, but compares the value as it is stored: when the lookup
\* gives a value that is "tensor/ndlist" or "application/json", or starts
\* with "text/" or "image/", only once put in lower case, get_data returns
\* exactly what get_as_bytes returns; and a request whose one property is
\* "Content-Type" = "application/json" goes to get_as_json.
C6_ValueComparedAsStored ==
    /\ (call.op = "get_data" /\ get_property(content_type).exc = ""
          /\ get_property(content_type).val # None) =>
           LET v == get_property(content_type).val[1]
           IN  (\/ lower(v) = tensor_ndlist /\ v # tensor_ndlist
                \/ lower(v) = application_json /\ v # application_json
                \/ startswith(lower(v), text_prefix) /\ ~startswith(v, text_prefix)
                \/ startswith(lower(v), image_prefix) /\ ~startswith(v, image_prefix))
               => CallResult = get_as_bytes(call.key)
    /\ (call.op = "get_data"
          /\ properties = << <<Some(Content_Type_Cap), Some(application_json)>> >>) =>
           CallResult = get_as_json(call.key)

\* get_data() on a request with "content-type" = "Application/JSON" that
\* returned the bytes of the "data" pair.
C6_Witness ==
    /\ call.op = "get_data"
    /\ call.key = None
    /\ properties = << <<Some(content_type), Some(Application_JSON_Cap)>> >>
    /\ call.kind = "bytes"
    /\ call.val = Some(Str(<<"Y">>))

\* C7, as claimed: get_data returns what the one accessor of the request's
\* content-type value returns ("tensor/ndlist": get_as_numpy,
\* "application/json": get_as_json, "text/...": get_as_string, "image/...":
\* get_as_image), and what get_as_bytes returns for any other value and for
\* a request without a content-type property.
C7_Claimed_Routing ==
    call.op = "get_data" => CallResult = accessor(branch(ContentTypeValue), call.key)

\* The routing of C7 on the calls whose property lookup returns.
C7_RoutingWhenLookupReturns ==
    (call.op = "get_data" /\ get_property(content_type).exc = "") =>
        CallResult = accessor(branch(ContentTypeValue), call.key)

\* C8: get_as_bytes without a key on a content list that is not empty
\* returns the value of the first pair whose key is "data", wherever it
\* sits, and without such a pair the value of the pair at position 0,
\* whatever its key (a null key too).
C8_NoKeyDataElseFirst ==
    (call.op = "get_as_bytes" /\ call.key = None /\ content # << >>) =>
        /\ call.exc = ""
        /\ call.kind = "bytes"
        /\ LET dataPairs == { i \in 1..Len(content) : content[i][1] = Some(data_key) }
           IN  IF dataPairs = {} THEN call.val = Some(content[1][2])
               ELSE \E i \in dataPairs :
                        /\ \A j \in dataPairs : i <= j
                        /\ call.val = Some(content[i][2])

\* get_as_bytes() that returned the empty value of a "data" pair in second
\* place.
C8_Witness ==
    /\ call.op = "get_as_bytes"
    /\ call.key = None
    /\ Len(content) = 2
    /\ content[1] = <<Some(other_key), Str(<<"X">>)>>
    /\ content[2] = <<Some(data_key), << >> >>
    /\ call.val = Some(<< >>)

\* C9, as claimed: on a request whose content list is empty get_as_bytes
\* raises EmptyInput with and without a key, and so do get_data and the
\* text, structured-record, image and numeric-array accessors.
C9_Claimed_EmptyInput ==
    (call.op \in ByteAccessors \cup { "get_data" } /\ content = << >>) =>
        call.exc = "EmptyInput"

\* The part of C9 on get_as_bytes and the accessors that call it directly.
C9_ByteAccessorsRaiseEmptyInput ==
    (call.op \in ByteAccessors /\ content = << >>) => call.exc = "EmptyInput"

\* C10: after the decode of a frame whose property block carries a key more
\* than once, properties has one entry for the key, with the value of its
\* last occurrence on the wire; the content pairs of a key sent more than
\* once are all kept, in order, and get_as_bytes(key) returns the value of
\* the first.
C10_LastPropertyFirstContent ==
    /\ (frame # None /\ pc = "done") =>
           /\ HoldsLastOf(properties, frame[1].props)
           /\ content = frame[1].content
    /\ (call.op = "get_as_bytes" /\ call.key # None /\ content # << >>) =>
           LET keyed == { i \in 1..Len(content) : content[i][1] = call.key }
           IN  IF keyed = {} THEN call.exc = "" /\ call.val = None
               ELSE \E i \in keyed :
                        /\ \A j \in keyed : i <= j
                        /\ CallResult = Returned("bytes", Some(content[i][2]))

\* The decode of a frame that sends "a" twice among its properties and
\* "data" twice among its content, and get_as_bytes("data") on it.
C10_Witness ==
    /\ pc = "done"
    /\ frame # None
    /\ Len(frame[1].props) = 3
    /\ properties = << <<T("a"), T("2")>>, <<T("b"), T("3")>> >>
    /\ Len(content) = 3
    /\ content[1][1] = Some(data_key)
    /\ content[3] = <<Some(data_key), << >> >>
    /\ call.op = "get_as_bytes"
    /\ call.key = Some(data_key)
    /\ call.val = Some(Str(<<"Y">>))

\* What the accessor op gives for the argument k on the request as it is.
ResultOf(op, k) ==
    IF op = "get_property" THEN get_property(k[1])
    ELSE IF op = "get_data" THEN get_data(k)
    ELSE accessor(op, k)

\* C11: a call of get_property, get_data, get_as_bytes, get_as_string,
\* get_as_json, get_as_image or get_as_numpy, whether it returns or raises,
\* leaves properties, content and function_name as they were, and what a
\* call gave is what the same call with the same argument gives in every
\* later state of the request, whatever calls were made in between.
C11_AccessorsLeaveRequest ==
    /\ [](call.op # "" => CallResult = ResultOf(call.op, call.key))
    /\ [][(call'.op # "" /\ call' # call) => (request' = request /\ pc' = pc)]_vars

\* A call that raised on a decoded request with properties and content.
C11_Witness ==
    /\ pc = "done"
    /\ call.op = "get_data"
    /\ call.exc = "AttributeError"
    /\ properties # << >>
    /\ content # << >>
    /\ get_property(content_type).exc = ""

\* C12, as claimed: get_property(k) returns the value of the first property
\* whose stored key equals k ignoring case, the stored keys staying the keys
\* that were sent, and returns None when no stored key equals k ignoring
\* case.
C12_Claimed_IgnoringCaseElseNone ==
    /\ (frame # None /\ pc = "done") =>
           \A i \in 1..Len(properties) : properties[i][1] \in SentKeys(frame[1].props)
    /\ call.op = "get_property" =>
           /\ call.exc = ""
           /\ IF ItemsIgnoringCase(call.key[1]) = {} THEN call.val = None
              ELSE \E i \in ItemsIgnoringCase(call.key[1]) :
                       /\ \A j \in ItemsIgnoringCase(call.key[1]) : i <= j
                       /\ call.val = properties[i][2]

\* The part of C12 that holds: the lookup on properties none of whose keys
\* is None.
C12_LookupAmongTextKeys ==
    (call.op = "get_property" /\ \A i \in 1..Len(properties) : properties[i][1] # None) =>
        /\ call.exc = ""
        /\ IF ItemsIgnoringCase(call.key[1]) = {} THEN call.val = None
           ELSE \E i \in ItemsIgnoringCase(call.key[1]) :
                    /\ \A j \in ItemsIgnoringCase(call.key[1]) : i <= j
                    /\ call.val = properties[i][2]

\* C13: get_as_bytes(key) on a content list that is not empty returns the
\* value of the first pair whose key is key, and returns None, without
\* raising and without turning to the "data" pair or the first pair, when
\* no pair has that key.
C13_KeyedFirstElseNone ==
    (call.op = "get_as_bytes" /\ call.key # None /\ content # << >>) =>
        LET keyed == { i \in 1..Len(content) : content[i][1] = call.key }
        IN  /\ call.exc = ""
            /\ keyed = {} => (call.kind = "None" /\ call.val = None)
            /\ keyed # {} =>
                   /\ call.kind = "bytes"
                   /\ \E i \in keyed : /\ \A j \in keyed : i <= j
                                       /\ call.val = Some(content[i][2])

\* get_as_bytes("other") that returned None on a content list that has a
\* "data" pair and no "other" pair.
C13_Witness ==
    /\ call.op = "get_as_bytes"
    /\ call.key = Some(other_key)
    /\ content # << >>
    /\ \E i \in 1..Len(content) : content[i][1] = Some(data_key)
    /\ \A i \in 1..Len(content) : content[i][1] # Some(other_key)
    /\ CallResult = Returned("None", None)

\* C14: a retrieve_buffer call never has more bytes than it was asked for:
\* what its next recv asks for is the length asked less the bytes it has
\* consumed, and is not negative.  So a decode that returns has consumed
\* exactly the bytes of its frame, and the frame that follows on the stream
\* is decoded from its first byte to the request the frame alone gives: its
\* content pairs in order, its properties with the last value of each key,
\* and function_name the value of "handler".
C14_NoOverRead ==
    /\ (pc \in Reading /\ want > 0) =>
           /\ length >= 0
           /\ length = want - (pos - start)
           /\ Len(data) = pos - start
    /\ (pc \in Reading /\ want <= 0) => pos = start
    /\ (frame # None /\ pc = "done") =>
           /\ pos = fstart + Len(EncodeFrame(frame[1]))
           /\ content = frame[1].content
           /\ HoldsLastOf(properties, frame[1].props)
           /\ function_name = lookup_function_name(properties)
    /\ (frame # None /\ pc = "new") =>
           SubSeq(wire, pos + 1, Len(wire)) = EncodeStream(<<frame[1]>> \o rest)

\* The second of two frames decoded, behind a first frame with a property
\* and a content pair.
C14_Witness ==
    /\ pc = "done"
    /\ frame # None
    /\ fstart > Len(EncodeFrame(frame[1]))
    /\ pos = Len(wire)
    /\ function_name = T("h")
    /\ content = << <<Some(data_key), Str(<<"Y">>)>> >>

\* C15, as claimed: on a request that a decode returned, get_property
\* returns (a value or None) and does not raise, for a frame with a null
\* property key too, and so the lookup get_data starts with does not raise.
C15_Claimed_LookupNeverRaises ==
    pc = "done" =>
        /\ call.op = "get_property" => call.exc = ""
        /\ call.op = "get_data" => get_property(content_type).exc = ""

\* The step on the return of the retrieve_buffer call that read a count or a
\* length for the field, all its bytes delivered.
FieldRead(field) == pc = field /\ length = 0 /\ Len(data) = want /\ pc' # pc

\* C16: negative counts and lengths are taken as they are and nothing is
\* read for them.  A property count of zero or less stores no property and
\* read goes on to the content count; a content count of zero or less adds
\* no content pair and read returns; a content length of zero or less gives
\* a retrieve_buffer call that consumes no byte and returns an empty
\* buffer, and the pair is added with that buffer; no retrieve_buffer call
\* for a length of zero or less receives from the connection.
C16_NegativeReadsNothing ==
    /\ [](pc \in Reading /\ want <= 0 => data = << >> /\ pos = start /\ length = want)
    /\ [][/\ (FieldRead("propSize") /\ unpack_short(data) <= 0) =>
                 /\ pc' = "contentSize"
                 /\ prop_size' = unpack_short(data)
                 /\ properties' = << >>
                 /\ pos' = pos
          /\ (FieldRead("contentSize") /\ unpack_short(data) <= 0) =>
                 /\ pc' = "done"
                 /\ content_size' = unpack_short(data)
                 /\ content' = << >>
                 /\ reads' = reads
                 /\ pos' = pos
          /\ (FieldRead("contLen") /\ unpack_int(data) <= 0) =>
                 /\ pc' = "contVal"
                 /\ want' = unpack_int(data)
                 /\ data' = << >>
                 /\ pos' = pos
          /\ (pc = "contVal" /\ want <= 0 /\ pc' # pc) =>
                 /\ pc' \in { "contKeyLen", "done" }
                 /\ content' = Append(content, <<key, << >> >>)
                 /\ pos' = pos
          /\ (pc \in Reading /\ want <= 0) => (pos' = pos /\ closed' = closed)
         ]_vars

\* The decode of a stream with two content pairs of length -1 and 0.
C16_Witness ==
    /\ pc = "done"
    /\ frame = None
    /\ pos = Len(wire)
    /\ prop_size = 0
    /\ content_size = 2
    /\ content = << <<Some(data_key), << >> >>, <<T("a"), << >> >> >>
    /\ unpack_int(SubSeq(wire, 11, 14)) < 0

\* C17: with a connection whose every recv returns, with at least one and
\* at most the bytes asked for or with none, a read that was called ends:
\* every recv that delivers bytes makes the length still missing smaller
\* and never negative, every retrieve_buffer call returns or raises
\* Disconnected, and read returns or raises; once read has raised nothing
\* more is received.
C17_DecodeTerminates ==
    /\ (pc \in Reading) ~> (pc \in { "done", "failed" })
    /\ (pc \in Reading /\ length > 0) ~> (length <= 0 \/ pc = "failed")
    /\ [][(pc \in Reading /\ pos' # pos) => (length' < length /\ length' >= 0)]_vars
    /\ [][pc = "failed" => (pc' = "failed" /\ pos' = pos /\ UNCHANGED request)]_vars

\* A read that raised Disconnected in a retrieve_buffer call that had
\* received a part of its bytes, after a property was stored.
C17_Witness ==
    /\ pc = "failed"
    /\ error = "Disconnected"
    /\ closed
    /\ Len(data) > 0
    /\ Len(data) < want
    /\ length = want - Len(data)
    /\ properties # << >>

\* C18: function_name is assigned by the last statement of read and by no
\* other: it is None in every state of an Input whose read has not
\* returned, while the pairs are being read and after read has raised, also
\* when the "handler" property is already stored.
C18_FunctionNameLast ==
    pc # "done" => function_name = None

\* A read that raised after it had stored the "handler" property.
C18_Witness ==
    /\ pc = "failed"
    /\ lookup_function_name(properties) = T("h")
    /\ function_name = None

====
